---- MODULE Spec2Model ----
(***************************************************************************)
(* Model of the ray-tracer frontend in src/src/lib.rs: the RayTracer       *)
(* application handler (resumed, window_event), its optional render State  *)
(* (new, resize, input, update, render) and the scene ingestion loops.     *)
(*                                                                         *)
(* Conventions.                                                            *)
(*  - Option<T> is a sequence of length at most one: None, Some(x).        *)
(*  - An f64 is an exact fraction <<num, den>> in lowest terms, den > 0;   *)
(*    den = 0 encodes the IEEE results of a division by zero: <<1, 0>> is  *)
(*    +inf, <<-1, 0>> is -inf, <<0, 0>> is NaN.  Pointer positions are     *)
(*    integer-valued here, so every quotient is exact.                     *)
(*  - The GPU/window calls a handler makes are recorded, in call order, in *)
(*    last.ops; each handler invocation is one atomic step (the program is *)
(*    single-threaded and handlers run to completion).                     *)
(***************************************************************************)
EXTENDS Integers, Sequences, FiniteSets, TLC

VARIABLES
    state,           \* RayTracer.state: Option<State>
    exiting,         \* event_loop.exit() has been called
    panicked,        \* a handler unwound (unwrap on None / failed startup)
    redraw_pending,  \* window.request_redraw() outstanding (winit coalesces)
    frame_seq,       \* number of surface textures handed out so far
    doc,             \* the scene document gltf::import(GLTF_PATH) yields
    last             \* the most recent handler invocation and its calls

vars == <<state, exiting, panicked, redraw_pending, frame_seq, doc, last>>

----------------------------------------------------------------------------
(* Bounds of the model *)

MaxDim == 2          \* the largest window width/height and pointer coordinate
MaxFrames == 2       \* surface textures handed out in one run
MaxFormats == 2      \* length of the surface's reported format list
MaxSceneNodes == 7   \* meshes + primitives + positions + materials of a scene

----------------------------------------------------------------------------
(* Option<T> *)

None == <<>>
Some(x) == <<x>>
is_none(o) == o = <<>>
is_some(o) == o # <<>>
unwrap(o) == o[1]

(* f64 *)

Abs(n) == IF n < 0 THEN -n ELSE n

RECURSIVE Gcd(_, _)
Gcd(a, b) == IF b = 0 THEN a ELSE Gcd(b, a % b)

Sign(n) == IF n > 0 THEN 1 ELSE IF n < 0 THEN -1 ELSE 0

\* position.x / self.size.width as f64
F64Div(x, w) ==
    IF w = 0 THEN <<Sign(x), 0>>
    ELSE LET g == Gcd(Abs(x), w) IN <<x \div g, w \div g>>

F64(n, d) == F64Div(n, d)

----------------------------------------------------------------------------
(* Inputs the collaborators supply *)

\* the widths, heights and pointer coordinates exercised: none, one pixel, the largest
Dims == {0, 1, MaxDim}
PhysicalSize(w, h) == [width |-> w, height |-> h]
Sizes == {PhysicalSize(w, h) : w \in Dims, h \in Dims}

Formats == {"Bgra8Unorm", "Bgra8UnormSrgb"}
is_srgb(format) == format = "Bgra8UnormSrgb"

RECURSIVE SeqsUpTo(_, _)
SeqsUpTo(S, n) ==
    IF n = 0 THEN {<<>>}
    ELSE LET shorter == SeqsUpTo(S, n - 1)
         IN shorter \cup {Append(s, x) : s \in {t \in shorter : Len(t) = n - 1}, x \in S}

\* surface.get_capabilities(&adapter).formats: a list without repetitions,
\* never empty for an adapter that was requested as compatible with the surface
FormatLists ==
    {fs \in SeqsUpTo(Formats, MaxFormats) :
        fs # <<>> /\ \A i, j \in DOMAIN fs : fs[i] = fs[j] => i = j}

SurfaceErrors == {"Lost", "Outdated", "OutOfMemory", "Other", "Timeout"}
AcquireResults == {"Ok"} \cup SurfaceErrors

Event(kind, a, b) == [kind |-> kind, a |-> a, b |-> b]
CursorMoved(x, y) == Event("CursorMoved", x, y)
Resized(w, h) == Event("Resized", w, h)
CloseRequested == Event("CloseRequested", 0, 0)
RedrawRequested == Event("RedrawRequested", 0, 0)
Focused == Event("Focused", 0, 0)

WindowEvents ==
    {CursorMoved(x, y) : x \in Dims, y \in Dims}
    \cup {Resized(w, h) : w \in Dims, h \in Dims}
    \cup {CloseRequested, RedrawRequested, Focused}

----------------------------------------------------------------------------
(* The scene document: meshes -> primitives -> optional position accessor, *)
(* and materials -> base-color factor.  f32 components are small integers. *)

Positions == {<<1, 2, 3>>, <<4, 5, 6>>}
BaseColors == {<<1, 1, 1, 1>>, <<1, 0, 0, 1>>}

Primitive(positions) == [positions |-> positions]
GltfMaterial(base_color) == [base_color_factor |-> base_color]
Document(meshes, materials) == [meshes |-> meshes, materials |-> materials]

\* res/triangle.gltf: one mesh, one primitive, three positions, one material
TriangleDoc ==
    Document(<<  <<Primitive(Some(<<  <<1, 2, 3>>, <<4, 5, 6>>, <<1, 2, 3>>  >>))>>  >>,
             <<GltfMaterial(<<1, 1, 1, 1>>)>>)


\* Scenes by node count: every mesh, primitive, position and material is a node.

\* the primitives of exactly n nodes
PrimitivesOf(n) ==
    (IF n = 1 THEN {Primitive(None)} ELSE {})
    \cup {Primitive(Some(s)) : s \in {t \in SeqsUpTo(Positions, n - 1) : Len(t) = n - 1}}

\* the primitive lists (meshes) of exactly n nodes
RECURSIVE PrimitiveListsOf(_)
PrimitiveListsOf(n) ==
    IF n = 0 THEN {<<>>}
    ELSE UNION {{<<p>> \o rest : p \in PrimitivesOf(c), rest \in PrimitiveListsOf(n - c)} :
                c \in 1..n}

\* the mesh lists of exactly n nodes
RECURSIVE MeshListsOf(_)
MeshListsOf(n) ==
    IF n = 0 THEN {<<>>}
    ELSE UNION {{<<m>> \o rest : m \in PrimitiveListsOf(c - 1), rest \in MeshListsOf(n - c)} :
                c \in 1..n}

MaterialLists(n) == {[i \in DOMAIN s |-> GltfMaterial(s[i])] : s \in SeqsUpTo(BaseColors, n)}

SceneDocs ==
    UNION {{Document(ms, mats) : ms \in MeshListsOf(n), mats \in MaterialLists(MaxSceneNodes - n)} :
           n \in 0..MaxSceneNodes}

----------------------------------------------------------------------------
(* Scene ingestion: the loops of RayTracer::resumed *)

vec3(x, y, z) == [x |-> x, y |-> y, z |-> z]

Material(ambient, diffuse, specular) ==
    [ambient |-> ambient, diffuse |-> diffuse, specular |-> specular]

\* for vertex in corners { vertices.push(vec3![vertex[0], vertex[1], vertex[2]]) }
RECURSIVE push_corners(_, _)
push_corners(vertices, corners) ==
    IF corners = <<>> THEN vertices
    ELSE push_corners(Append(vertices, vec3(Head(corners)[1], Head(corners)[2], Head(corners)[3])),
                      Tail(corners))

\* read_primitive with the collected positions assigned instead of pushed
read_primitive_overwrites(vertices, primitive) ==
    IF is_some(primitive.positions)
    THEN push_corners(<<>>, unwrap(primitive.positions))
    ELSE vertices

\* if let Some(positions) = reader.read_positions() { ... }
read_primitive(vertices, primitive) ==
    IF is_some(primitive.positions)
    THEN push_corners(vertices, unwrap(primitive.positions))
    ELSE vertices

\* for primitive in mesh.primitives() { ... }
RECURSIVE read_primitives(_, _)
read_primitives(vertices, primitives) ==
    IF primitives = <<>> THEN vertices
    ELSE read_primitives(read_primitive(vertices, Head(primitives)), Tail(primitives))

\* for mesh in doc.meshes() { ... }
RECURSIVE read_meshes(_, _)
read_meshes(vertices, meshes) ==
    IF meshes = <<>> THEN vertices
    ELSE read_meshes(read_primitives(vertices, Head(meshes)), Tail(meshes))

\* push_material that skips a material equal to one already pushed
push_material_dedup(materials, material) ==
    LET base_color == material.base_color_factor
        record == Material(<<base_color[1], base_color[2], base_color[3], base_color[4]>>,
                           <<0, 0, 0, 0>>, <<0, 0, 0, 0>>)
    IN IF \E i \in DOMAIN materials : materials[i] = record
       THEN materials
       ELSE Append(materials, record)

\* materials.push(Material { ambient: [base_color[0..3]], diffuse: 0, specular: 0 })
push_material(materials, material) ==
    LET base_color == material.base_color_factor
    IN Append(materials,
              Material(<<base_color[1], base_color[2], base_color[3], base_color[4]>>,
                       <<0, 0, 0, 0>>, <<0, 0, 0, 0>>))

\* for material in doc.materials() { ... }
RECURSIVE read_materials(_, _)
read_materials(materials, gltf_materials) ==
    IF gltf_materials = <<>> THEN materials
    ELSE read_materials(push_material(materials, Head(gltf_materials)), Tail(gltf_materials))

----------------------------------------------------------------------------
(* impl State *)

\* one recorded call: its name and its argument (or, for an acquisition, its result)
Op(name, arg) == [call |-> name, with |-> arg]

Color(r, g, b, a) == [r |-> r, g |-> g, b |-> b, a |-> a]

SurfaceConfiguration(format, width, height) ==
    [format |-> format, width |-> width, height |-> height]

\* surface_caps.formats.iter().find(|format| format.is_srgb()).copied()
RECURSIVE find_srgb(_)
find_srgb(formats) ==
    IF formats = <<>> THEN None
    ELSE IF is_srgb(Head(formats)) THEN Some(Head(formats))
    ELSE find_srgb(Tail(formats))

\* .unwrap_or(surface_caps.formats[0])
choose_surface_format(formats) ==
    LET found == find_srgb(formats)
    IN IF is_some(found) THEN unwrap(found) ELSE formats[1]

\* the pipeline built for the first reported format instead of the chosen one
pipeline_target_first_format(config, formats) == formats[1]

\* the format the render pipeline's colour target is built with
pipeline_target_format(config, formats) == config.format

\* State::new(window, vertices, materials); inner_size and formats are what
\* the window and the surface report.  The surface is created but not configured.
State_new(inner_size, formats, vertices, materials) ==
    LET size == inner_size
        surface_format == choose_surface_format(formats)
        config == SurfaceConfiguration(surface_format, size.width, size.height)
    IN [st |-> [surface |-> [config |-> None],
                config |-> config,
                size |-> size,
                render_pipeline |-> [format |-> pipeline_target_format(config, formats)],
                vertex_buffer |-> vertices,
                material_bind_group |-> materials,
                num_vertices |-> Len(vertices),
                settings |-> [bg_color |-> Color(F64(1, 10), F64(2, 10), F64(3, 10), F64(1, 1))]],
        ops |-> <<Op("create_surface", 0),
                  Op("request_adapter", 0),
                  Op("request_device", 0),
                  Op("create_buffer_init", materials),
                  Op("create_render_pipeline", pipeline_target_format(config, formats)),
                  Op("create_buffer_init", vertices)>>]

\* resize with the stored size updated but the configuration's width left stale
resize_stale_config(s, new_size) ==
    IF new_size.width > 0 /\ new_size.height > 0
    THEN LET config == [s.config EXCEPT !.height = new_size.height]
         IN [st |-> [s EXCEPT !.size = new_size,
                              !.config = config,
                              !.surface.config = Some(config)],
             ops |-> <<Op("configure", config)>>]
    ELSE [st |-> s, ops |-> <<>>]

\* resize guarded by "either dimension positive" instead of "both"
resize_either_dimension(s, new_size) ==
    IF new_size.width > 0 \/ new_size.height > 0
    THEN LET config == [s.config EXCEPT !.width = new_size.width, !.height = new_size.height]
         IN [st |-> [s EXCEPT !.size = new_size,
                              !.config = config,
                              !.surface.config = Some(config)],
             ops |-> <<Op("configure", config)>>]
    ELSE [st |-> s, ops |-> <<>>]

\* resize that updates and applies the configuration but not self.size
resize_stale_size(s, new_size) ==
    IF new_size.width > 0 /\ new_size.height > 0
    THEN LET config == [s.config EXCEPT !.width = new_size.width, !.height = new_size.height]
         IN [st |-> [s EXCEPT !.config = config,
                              !.surface.config = Some(config)],
             ops |-> <<Op("configure", config)>>]
    ELSE [st |-> s, ops |-> <<>>]

\* State::resize
resize(s, new_size) ==
    IF new_size.width > 0 /\ new_size.height > 0
    THEN LET config == [s.config EXCEPT !.width = new_size.width, !.height = new_size.height]
         IN [st |-> [s EXCEPT !.size = new_size,
                              !.config = config,
                              !.surface.config = Some(config)],
             ops |-> <<Op("configure", config)>>]
    ELSE [st |-> s, ops |-> <<>>]

\* input with the pointer normalised against the wrong dimensions
input_swapped(s, event) ==
    IF event.kind = "CursorMoved"
    THEN [st |-> [s EXCEPT !.settings.bg_color.r = F64Div(event.a, s.size.height),
                           !.settings.bg_color.g = F64Div(event.b, s.size.width)],
          consumed |-> TRUE]
    ELSE [st |-> s, consumed |-> FALSE]

\* State::input
input(s, event) ==
    IF event.kind = "CursorMoved"
    THEN [st |-> [s EXCEPT !.settings.bg_color.r = F64Div(event.a, s.size.width),
                           !.settings.bg_color.g = F64Div(event.b, s.size.height)],
          consumed |-> TRUE]
    ELSE [st |-> s, consumed |-> FALSE]

\* State::update
update(s) == s

\* render that submits but never presents the acquired frame
render_without_present(s, acquired, frame) ==
    IF acquired # "Ok"
    THEN [st |-> s, result |-> acquired,
          ops |-> <<Op("get_current_texture", acquired)>>]
    ELSE [st |-> s, result |-> "Ok",
          ops |-> <<Op("get_current_texture", acquired),
                    Op("acquired", frame),
                    Op("create_view", frame),
                    Op("create_command_encoder", 0),
                    Op("begin_render_pass", <<frame, s.settings.bg_color>>),
                    Op("set_pipeline", s.render_pipeline),
                    Op("set_bind_group", <<0, s.material_bind_group>>),
                    Op("set_vertex_buffer", <<0, s.vertex_buffer>>),
                    Op("draw", <<0, s.num_vertices, 0, 1>>),
                    Op("end_render_pass", 0),
                    Op("submit", 1)>>]

\* render that submits the encoder before the render pass is dropped
render_submit_inside_pass(s, acquired, frame) ==
    IF acquired # "Ok"
    THEN [st |-> s, result |-> acquired,
          ops |-> <<Op("get_current_texture", acquired)>>]
    ELSE [st |-> s, result |-> "Ok",
          ops |-> <<Op("get_current_texture", acquired),
                    Op("acquired", frame),
                    Op("create_view", frame),
                    Op("create_command_encoder", 0),
                    Op("begin_render_pass", <<frame, s.settings.bg_color>>),
                    Op("set_pipeline", s.render_pipeline),
                    Op("set_bind_group", <<0, s.material_bind_group>>),
                    Op("set_vertex_buffer", <<0, s.vertex_buffer>>),
                    Op("draw", <<0, s.num_vertices, 0, 1>>),
                    Op("submit", 1),
                    Op("end_render_pass", 0),
                    Op("present", frame)>>]

\* State::render; acquired is what surface.get_current_texture() returns and
\* frame names the texture it hands out on success
render(s, acquired, frame) ==
    IF acquired # "Ok"
    THEN [st |-> s, result |-> acquired,
          ops |-> <<Op("get_current_texture", acquired)>>]
    ELSE [st |-> s, result |-> "Ok",
          ops |-> <<Op("get_current_texture", acquired),
                    Op("acquired", frame),
                    Op("create_view", frame),
                    Op("create_command_encoder", 0),
                    Op("begin_render_pass", <<frame, s.settings.bg_color>>),
                    Op("set_pipeline", s.render_pipeline),
                    Op("set_bind_group", <<0, s.material_bind_group>>),
                    Op("set_vertex_buffer", <<0, s.vertex_buffer>>),
                    Op("draw", <<0, s.num_vertices, 0, 1>>),
                    Op("end_render_pass", 0),
                    Op("submit", 1),
                    Op("present", frame)>>]

----------------------------------------------------------------------------
(* impl RayTracer / impl ApplicationHandler for RayTracer *)

\* what one handler invocation leaves behind
Handled(st, exit, redraw, panic, frames, event, acquired, consumed, ops) ==
    [state |-> st, exiting |-> exit, redraw_pending |-> redraw, panicked |-> panic,
     frame_seq |-> frames,
     last |-> [event |-> event, acquired |-> acquired, consumed |-> consumed, ops |-> ops]]

\* the match with OutOfMemory | Other handled like Lost | Outdated
match_render_result_fatal_recovers(s, exit, result) ==
    IF result = "Ok"
    THEN [st |-> s, exit |-> exit, ops |-> <<>>]
    ELSE IF result \in {"Lost", "Outdated", "OutOfMemory", "Other"}
    THEN LET resized == resize(s, s.size)
         IN [st |-> resized.st, exit |-> exit, ops |-> resized.ops]
    ELSE [st |-> s, exit |-> exit, ops |-> <<>>]

\* the match with Timeout handled like Lost | Outdated
match_render_result_timeout_recovers(s, exit, result) ==
    IF result = "Ok"
    THEN [st |-> s, exit |-> exit, ops |-> <<>>]
    ELSE IF result \in {"Lost", "Outdated", "Timeout"}
    THEN LET resized == resize(s, s.size)
         IN [st |-> resized.st, exit |-> exit, ops |-> resized.ops]
    ELSE [st |-> s, exit |-> TRUE, ops |-> <<Op("exit", 0)>>]

\* match state.render() { Ok | Err(Lost | Outdated) | Err(OutOfMemory | Other) | Err(Timeout) }
match_render_result(s, exit, result) ==
    IF result = "Ok"
    THEN [st |-> s, exit |-> exit, ops |-> <<>>]
    ELSE IF result \in {"Lost", "Outdated"}
    THEN LET resized == resize(s, s.size)
         IN [st |-> resized.st, exit |-> exit, ops |-> resized.ops]
    ELSE IF result \in {"OutOfMemory", "Other"}
    THEN [st |-> s, exit |-> TRUE, ops |-> <<Op("exit", 0)>>]
    ELSE [st |-> s, exit |-> exit, ops |-> <<>>]

\* the RedrawRequested arm without self.get_state().get_window().request_redraw()
redraw_requested_not_rerequested(s, exit, frames, event, acquired) ==
    LET updated == update(s)
        rendered == render(updated, acquired, frames + 1)
        handed == IF rendered.result = "Ok" THEN frames + 1 ELSE frames
        matched == match_render_result(rendered.st, exit, rendered.result)
    IN Handled(Some(matched.st), matched.exit, FALSE, FALSE, handed, event, acquired, FALSE,
               rendered.ops \o matched.ops)

\* the RedrawRequested arm of window_event, entered with the state present (its
\* own state.is_none() check cannot hold: get_state() has already unwrapped)
redraw_requested(s, exit, frames, event, acquired) ==
    LET requested == <<Op("request_redraw", 0)>>
        updated == update(s)
        rendered == render(updated, acquired, frames + 1)
        handed == IF rendered.result = "Ok" THEN frames + 1 ELSE frames
        matched == match_render_result(rendered.st, exit, rendered.result)
    IN Handled(Some(matched.st), matched.exit, TRUE, FALSE, handed, event, acquired, FALSE,
               requested \o rendered.ops \o matched.ops)

\* window_event whose CloseRequested arm does not call event_loop.exit()
window_event_close_ignored(st, exit, redraw, frames, event, acquired) ==
    IF is_none(st)
    THEN Handled(st, exit, redraw, TRUE, frames, event, "None", FALSE, <<>>)
    ELSE LET handled == input(unwrap(st), event)
             s == handled.st
         IN IF handled.consumed
            THEN Handled(Some(s), exit, redraw, FALSE, frames, event, "None", TRUE, <<>>)
            ELSE IF event.kind = "RedrawRequested"
            THEN redraw_requested(s, exit, frames, event, acquired)
            ELSE IF event.kind = "Resized"
            THEN LET resized == resize(s, PhysicalSize(event.a, event.b))
                 IN Handled(Some(resized.st), exit, redraw, FALSE, frames, event, "None", FALSE,
                            resized.ops)
            ELSE Handled(Some(s), exit, redraw, FALSE, frames, event, "None", FALSE, <<>>)

\* RayTracer::window_event on the application (st, exit, redraw, frames)
window_event(st, exit, redraw, frames, event, acquired) ==
    IF is_none(st)
    THEN \* self.get_state() unwraps None
         Handled(st, exit, redraw, TRUE, frames, event, "None", FALSE, <<>>)
    ELSE LET handled == input(unwrap(st), event)
             s == handled.st
         IN IF handled.consumed
            THEN Handled(Some(s), exit, redraw, FALSE, frames, event, "None", TRUE, <<>>)
            ELSE IF event.kind = "CloseRequested"
            THEN Handled(Some(s), TRUE, redraw, FALSE, frames, event, "None", FALSE,
                         <<Op("exit", 0)>>)
            ELSE IF event.kind = "RedrawRequested"
            THEN redraw_requested(s, exit, frames, event, acquired)
            ELSE IF event.kind = "Resized"
            THEN LET resized == resize(s, PhysicalSize(event.a, event.b))
                 IN Handled(Some(resized.st), exit, redraw, FALSE, frames, event, "None", FALSE,
                            resized.ops)
            ELSE Handled(Some(s), exit, redraw, FALSE, frames, event, "None", FALSE, <<>>)

\* RayTracer::resumed, with the window, the scene file and the GPU available
\* (every unwrap in it and in State::new succeeds)
resumed(exit, redraw, frames, document, inner_size, formats) ==
    LET vertices == read_meshes(<<>>, document.meshes)
        materials == read_materials(<<>>, document.materials)
        created == State_new(inner_size, formats, vertices, materials)
    IN Handled(Some(created.st), exit, redraw, FALSE, frames, Event("Resumed", 0, 0), "None", FALSE,
               <<Op("create_window", inner_size), Op("import", document)>> \o created.ops)

----------------------------------------------------------------------------
(* The event loop: EventLoop::run_app dispatches one notification at a time *)
(* until exit is signalled or a handler panics.  What the window reports    *)
(* (its inner size, its events) and what the surface reports (its formats,  *)
(* the result of each acquisition) are free choices of the environment.     *)

Running == ~exiting /\ ~panicked

Apply(h) ==
    /\ state' = h.state
    /\ exiting' = h.exiting
    /\ redraw_pending' = h.redraw_pending
    /\ panicked' = h.panicked
    /\ frame_seq' = h.frame_seq
    /\ last' = h.last
    /\ UNCHANGED doc

Resume ==
    /\ Running
    /\ \E inner_size \in Sizes, formats \in FormatLists :
          Apply(resumed(exiting, redraw_pending, frame_seq, doc, inner_size, formats))

Dispatch ==
    /\ Running
    /\ \E event \in WindowEvents \ {RedrawRequested} :
          Apply(window_event(state, exiting, redraw_pending, frame_seq, event, "None"))

Redraw ==
    /\ Running
    /\ frame_seq < MaxFrames
    /\ \E acquired \in AcquireResults :
          Apply(window_event(state, exiting, redraw_pending, frame_seq, RedrawRequested, acquired))

NoCall == [event |-> Event("None", 0, 0), acquired |-> "None", consumed |-> FALSE, ops |-> <<>>]

InitApp ==
    /\ state = None
    /\ exiting = FALSE
    /\ panicked = FALSE
    /\ redraw_pending = FALSE
    /\ frame_seq = 0
    /\ last = NoCall

Init == InitApp /\ doc = TriangleDoc

Next == Resume \/ Dispatch \/ Redraw

Spec == Init /\ [][Next]_vars

\* The windowing collaborator delivers a redraw that was requested: the
\* RedrawRequested that Window::request_redraw() asks for is eventually dispatched
RequestedRedraw == redraw_pending /\ Redraw

\* The frame loop under that delivery, for a window created with no area or with
\* one pixel and a surface that reports one format (neither plays a part in
\* which notification is dispatched; Resized still brings every size)
LiveSizes == {PhysicalSize(0, 0), PhysicalSize(1, 1)}

ResumeLive ==
    /\ Running
    /\ \E inner_size \in LiveSizes :
          Apply(resumed(exiting, redraw_pending, frame_seq, doc, inner_size, <<"Bgra8UnormSrgb">>))

NextLive == ResumeLive \/ Dispatch \/ Redraw

SpecLive == Init /\ [][NextLive]_vars /\ WF_vars(RequestedRedraw)

\* Ingestion over every scene within MaxSceneNodes, for one window and format list
InitIngest == InitApp /\ doc \in SceneDocs

Import ==
    /\ Running
    /\ is_none(state)
    /\ Apply(resumed(exiting, redraw_pending, frame_seq, doc, PhysicalSize(1, 1), <<"Bgra8UnormSrgb">>))

NextIngest == Import

SpecIngest == InitIngest /\ [][NextIngest]_vars

----------------------------------------------------------------------------
(* Reading the record of the last handler invocation *)

Calls(ops, name) == {i \in DOMAIN ops : ops[i].call = name}
Count(ops, name) == Cardinality(Calls(ops, name))

Ready == is_some(state)

\* the last handler was a redraw that reached render() with the given outcome
LastRedraw(outcomes) ==
    /\ last.event.kind = "RedrawRequested"
    /\ last.acquired \in outcomes

\* the argument of the State::resize call the last handler made, if it made one
ResizeCall ==
    IF panicked \/ last.consumed THEN None
    ELSE IF last.event.kind = "Resized" THEN Some(PhysicalSize(last.event.a, last.event.b))
    ELSE IF LastRedraw({"Lost", "Outdated"}) THEN Some(unwrap(state).size)
    ELSE None

Positive(size) == size.width > 0 /\ size.height > 0

NoDrawing(ops) ==
    /\ Count(ops, "begin_render_pass") = 0
    /\ Count(ops, "draw") = 0
    /\ Count(ops, "submit") = 0
    /\ Count(ops, "present") = 0

----------------------------------------------------------------------------
(* Claims *)

\* C1: a redraw in the Ready state whose acquisition fails with Lost or Outdated
\* reconfigures the surface exactly once, at the stored size, renders, draws,
\* submits and presents nothing, and does not signal exit, whatever the stored size.
C1_LostReconfiguresOnce ==
    LastRedraw({"Lost", "Outdated"}) =>
        /\ Count(last.ops, "configure") = 1
        /\ \A i \in Calls(last.ops, "configure") :
              /\ last.ops[i].with.width = unwrap(state).size.width
              /\ last.ops[i].with.height = unwrap(state).size.height
        /\ NoDrawing(last.ops)
        /\ Count(last.ops, "exit") = 0
        /\ ~exiting

\* C2: a redraw in the Ready state whose acquisition fails with OutOfMemory or
\* Other submits nothing, reconfigures nothing, leaves the surface configuration
\* as it was and signals exit of the event loop.
C2_Step ==
    LastRedraw({"OutOfMemory", "Other"})' =>
        /\ NoDrawing(last'.ops)
        /\ Count(last'.ops, "configure") = 0
        /\ unwrap(state').config = unwrap(state).config
        /\ unwrap(state').surface = unwrap(state).surface
        /\ Count(last'.ops, "exit") = 1
        /\ exiting'

C2_FatalExitsWithoutReconfigure == [][C2_Step]_vars

C2_Witness ==
    /\ Ready
    /\ LastRedraw({"OutOfMemory", "Other"})
    /\ is_some(unwrap(state).surface.config)
    /\ exiting

\* C3: a resize call with width > 0 and height > 0 leaves the stored size and
\* the surface configuration's width and height equal to the new values, and
\* configures the surface exactly once, with the updated configuration.
C3_ResizeApplies ==
    (is_some(ResizeCall) /\ Positive(unwrap(ResizeCall))) =>
        LET s == unwrap(state)
            new_size == unwrap(ResizeCall)
        IN /\ s.config.width = new_size.width
           /\ s.config.height = new_size.height
           /\ s.size = new_size
           /\ Count(last.ops, "configure") = 1
           /\ \A i \in Calls(last.ops, "configure") : last.ops[i].with = s.config
           /\ s.surface.config = Some(s.config)

C3_Witness ==
    /\ Ready
    /\ last.event.kind = "Resized"
    /\ is_some(ResizeCall)
    /\ unwrap(ResizeCall) = PhysicalSize(2, 1)
    /\ unwrap(state).config.width = 2
    /\ unwrap(state).config.height = 1

\* C4: a resize call with width = 0 or height = 0 changes neither the stored size
\* nor the surface configuration, configures nothing and signals no error or exit,
\* however often it is repeated.
C4_Step ==
    (is_some(ResizeCall') /\ ~Positive(unwrap(ResizeCall'))) =>
        /\ state' = state
        /\ Count(last'.ops, "configure") = 0
        /\ exiting' = exiting
        /\ panicked' = panicked

C4_ZeroResizeIsNoOp == [][C4_Step]_vars

C4_Witness ==
    /\ Ready
    /\ last.event.kind = "Resized"
    /\ is_some(ResizeCall)
    /\ ~Positive(unwrap(ResizeCall))
    /\ Positive(unwrap(state).size)
    /\ is_some(unwrap(state).surface.config)
    /\ ~exiting /\ ~panicked

\* the frames acquired in ops and not presented in ops
InFlight(ops) ==
    {ops[i].with : i \in Calls(ops, "acquired")} \ {ops[i].with : i \in Calls(ops, "present")}

\* C5: a redraw whose acquisition succeeds makes exactly one render pass, one
\* draw, one submission and one present, of the frame acquired in that iteration;
\* no handler returns holding a frame, and no frame is presented that was not
\* acquired earlier in the same handler invocation.
C5_OneFramePerIteration ==
    /\ InFlight(last.ops) = {}
    /\ \A i \in Calls(last.ops, "present") :
          \E j \in Calls(last.ops, "acquired") : j < i /\ last.ops[j].with = last.ops[i].with
    /\ LastRedraw({"Ok"}) =>
          /\ Count(last.ops, "acquired") = 1
          /\ Count(last.ops, "begin_render_pass") = 1
          /\ Count(last.ops, "draw") = 1
          /\ Count(last.ops, "submit") = 1
          /\ Count(last.ops, "present") = 1
          /\ \A i \in Calls(last.ops, "present") : last.ops[i].with = frame_seq
          /\ \A i \in Calls(last.ops, "begin_render_pass") : last.ops[i].with[1] = frame_seq

C5_Witness ==
    /\ Ready
    /\ LastRedraw({"Ok"})
    /\ frame_seq = 2
    /\ Count(last.ops, "present") = 1

\* the positions of the scene, as <<mesh, primitive, position>> indices
Slots(document) ==
    UNION {UNION {{<<m, p, k>> : k \in 1..(IF is_some(document.meshes[m][p].positions)
                                          THEN Len(unwrap(document.meshes[m][p].positions))
                                          ELSE 0)} :
                  p \in DOMAIN document.meshes[m]} :
           m \in DOMAIN document.meshes}

\* how many positions come before primitive p of mesh m in document order
Before(document, m, p) ==
    Cardinality({t \in Slots(document) : t[1] < m \/ (t[1] = m /\ t[2] < p)})

\* C6: the ingested vertex list is the concatenation of the present position
\* lists in mesh, then primitive, then position order: its length is the sum of
\* the position counts, position k of primitive p of mesh m sits right after all
\* positions that precede it in the document, and a primitive without positions
\* contributes nothing and raises no error.
C6_VerticesInDocumentOrder ==
    last.event.kind = "Resumed" =>
        LET vertices == unwrap(state).vertex_buffer
        IN /\ ~panicked
           /\ Len(vertices) = Cardinality(Slots(doc))
           /\ unwrap(state).num_vertices = Cardinality(Slots(doc))
           /\ \A t \in Slots(doc) :
                 LET position == unwrap(doc.meshes[t[1]][t[2]].positions)[t[3]]
                     vertex == vertices[Before(doc, t[1], t[2]) + t[3]]
                 IN vertex.x = position[1] /\ vertex.y = position[2] /\ vertex.z = position[3]

C6_Witness ==
    /\ Ready
    /\ last.event.kind = "Resumed"
    /\ Len(doc.meshes) = 2
    /\ Len(doc.meshes[1]) = 2
    /\ is_none(doc.meshes[1][1].positions)
    /\ doc.meshes[1][2].positions = Some(<<  <<4, 5, 6>>  >>)
    /\ doc.meshes[2] = <<Primitive(Some(<<  <<1, 2, 3>>  >>))>>
    /\ unwrap(state).vertex_buffer = <<vec3(4, 5, 6), vec3(1, 2, 3)>>

\* C7: the ingested material list has one record per material of the scene, in
\* the scene's order, equal materials included; record i carries material i's
\* four-component base-color factor as ambient, and zero diffuse and specular.
C7_MaterialsInDocumentOrder ==
    last.event.kind = "Resumed" =>
        LET materials == unwrap(state).material_bind_group
        IN /\ Len(materials) = Len(doc.materials)
           /\ \A i \in DOMAIN doc.materials :
                 /\ Len(materials[i].ambient) = 4
                 /\ \A c \in 1..4 : materials[i].ambient[c] = doc.materials[i].base_color_factor[c]
                 /\ materials[i].diffuse = <<0, 0, 0, 0>>
                 /\ materials[i].specular = <<0, 0, 0, 0>>

C7_Witness ==
    /\ Ready
    /\ last.event.kind = "Resumed"
    /\ Len(doc.materials) = 3
    /\ doc.materials[1] = doc.materials[3]
    /\ doc.materials[1] # doc.materials[2]
    /\ Len(unwrap(state).material_bind_group) = 3

\* q is the f64 quotient x / w
IsQuotient(q, x, w) ==
    IF w > 0 THEN q[2] > 0 /\ q[1] * w = x * q[2]
    ELSE q[2] = 0 /\ q[1] = Sign(x)

\* C8: a pointer move to (x, y) handled in the Ready state with stored size
\* (W, H) sets red to x/W and green to y/H, leaves blue, alpha, the stored size
\* and the surface configuration alone, and is consumed, so that no default
\* handling runs; every other window event leaves the clear color alone and is
\* not consumed.
C8_Step ==
    /\ (last'.event.kind = "CursorMoved" /\ ~panicked') =>
          LET s == unwrap(state)
              t == unwrap(state')
          IN /\ IsQuotient(t.settings.bg_color.r, last'.event.a, s.size.width)
             /\ IsQuotient(t.settings.bg_color.g, last'.event.b, s.size.height)
             /\ t.settings.bg_color.b = s.settings.bg_color.b
             /\ t.settings.bg_color.a = s.settings.bg_color.a
             /\ t.config = s.config
             /\ t.size = s.size
             /\ t.surface = s.surface
             /\ last'.consumed
             /\ Len(last'.ops) = 0
             /\ exiting' = exiting
             /\ frame_seq' = frame_seq
    /\ (last'.event.kind \in {"Resized", "CloseRequested", "RedrawRequested", "Focused"}
        /\ ~panicked') =>
          /\ unwrap(state').settings.bg_color = unwrap(state).settings.bg_color
          /\ ~last'.consumed

C8_PointerMoveSetsClearColor == [][C8_Step]_vars

C8_Witness ==
    /\ Ready
    /\ last.event = CursorMoved(1, 2)
    /\ last.consumed
    /\ unwrap(state).size = PhysicalSize(2, 1)
    /\ unwrap(state).settings.bg_color = Color(F64(1, 2), F64(2, 1), F64(3, 10), F64(1, 1))

\* C9: in every Ready state the pipeline's color format is the format of the
\* stored surface configuration, of the configuration applied to the surface and
\* of every configure call; and no handler other than construction changes it.
C9_Formats ==
    Ready =>
        LET s == unwrap(state)
        IN /\ s.render_pipeline.format = s.config.format
           /\ is_some(s.surface.config) => unwrap(s.surface.config).format = s.render_pipeline.format
           /\ \A i \in Calls(last.ops, "configure") :
                 last.ops[i].with.format = s.render_pipeline.format
           /\ \A i \in Calls(last.ops, "create_render_pipeline") :
                 last.ops[i].with = s.config.format

C9_Step ==
    (Ready /\ Ready' /\ last'.event.kind # "Resumed") =>
        /\ unwrap(state').config.format = unwrap(state).config.format
        /\ unwrap(state').render_pipeline = unwrap(state).render_pipeline

C9_FormatShared == []C9_Formats /\ [][C9_Step]_vars

C9_Witness ==
    /\ Ready
    /\ LastRedraw({"Ok"})
    /\ is_some(unwrap(state).surface.config)
    /\ unwrap(state).render_pipeline.format = "Bgra8UnormSrgb"
    /\ unwrap(unwrap(state).surface.config).format = "Bgra8UnormSrgb"

\* C10: a redraw in the Ready state whose acquisition fails with Timeout changes
\* no render state: nothing is configured, drawn, submitted or presented, exit
\* is not signalled, and the stored size, the surface configuration and the
\* clear color are what they were.
C10_Step ==
    LastRedraw({"Timeout"})' =>
        /\ state' = state
        /\ Count(last'.ops, "configure") = 0
        /\ NoDrawing(last'.ops)
        /\ Count(last'.ops, "exit") = 0
        /\ exiting' = exiting
        /\ panicked' = panicked
        /\ frame_seq' = frame_seq

C10_TimeoutChangesNothing == [][C10_Step]_vars

C10_Witness ==
    /\ Ready
    /\ LastRedraw({"Timeout"})
    /\ is_some(unwrap(state).surface.config)
    /\ unwrap(state).settings.bg_color.r # F64(1, 10)
    /\ ~exiting

\* the calls that create the surface, the device and queue, the buffers and the pipeline
Constructions(ops) ==
    Calls(ops, "create_surface") \cup Calls(ops, "request_device")
        \cup Calls(ops, "create_buffer_init") \cup Calls(ops, "create_render_pipeline")

\* C11: the render state is constructed at most once: a handler that runs in the
\* Ready state creates no surface, device, buffer or pipeline, and whatever is
\* notified, 'resumed' included, the state it leaves holds the resources it found.
C11_Step ==
    Ready =>
        /\ Constructions(last'.ops) = {}
        /\ Ready'
        /\ unwrap(state').render_pipeline = unwrap(state).render_pipeline
        /\ unwrap(state').vertex_buffer = unwrap(state).vertex_buffer
        /\ unwrap(state').material_bind_group = unwrap(state).material_bind_group
        /\ unwrap(state').config.format = unwrap(state).config.format

C11_ConstructedOnce == [][C11_Step]_vars

\* a handler that acquires, records, submits or presents nothing
NoFrame(ops) ==
    /\ Count(ops, "get_current_texture") = 0
    /\ Count(ops, "acquired") = 0
    /\ NoDrawing(ops)

\* C12: a close request handled in the Ready state signals exit in that handler
\* invocation, which acquires no frame and holds none; and from the moment exit is
\* signalled, by a close request or by a fatal acquisition error, nothing is
\* acquired, configured, submitted or presented, neither later in that handler
\* nor by a later handler, although the fatal iteration had re-requested a redraw.
C12_Step ==
    /\ (Ready /\ last'.event.kind = "CloseRequested") =>
          /\ exiting'
          /\ Count(last'.ops, "exit") = 1
          /\ NoFrame(last'.ops)
          /\ InFlight(last'.ops) = {}
          /\ frame_seq' = frame_seq
    /\ \A i \in Calls(last'.ops, "exit") :
          \A j \in DOMAIN last'.ops :
             j > i => last'.ops[j].call \notin {"get_current_texture", "acquired", "configure",
                                                "begin_render_pass", "draw", "submit", "present"}
    /\ exiting =>
          /\ exiting'
          /\ NoFrame(last'.ops)
          /\ frame_seq' = frame_seq

C13_ConfiguredBeforeAcquire ==
    /\ last.event.kind = "Resumed" =>
          /\ Count(last.ops, "configure") = 1
          /\ is_some(unwrap(state).surface.config)
    /\ (Count(last.ops, "get_current_texture") > 0 /\ Count(last.ops, "configure") = 0) =>
          is_some(unwrap(state).surface.config)

\* C14: while the application is Uninitialized every window event is ignored:
\* the handler returns without panicking, makes no call on the window or the
\* GPU, and leaves the application Uninitialized.
C14_Step ==
    (is_none(state) /\ last'.event.kind # "Resumed") =>
        /\ ~panicked'
        /\ is_none(state')
        /\ Len(last'.ops) = 0
        /\ exiting' = exiting

C14_UninitializedIgnores == [][C14_Step]_vars

\* C15: in every Ready state the width and the height of the stored surface
\* configuration are both greater than zero, whatever size the window had at
\* construction and whatever events followed.
C15_ConfigPositive ==
    Ready =>
        /\ unwrap(state).config.width > 0
        /\ unwrap(state).config.height > 0

\* the f64 q is a number in [0, 1] (not NaN, not infinite)
InUnit(q) == q[2] > 0 /\ 0 <= q[1] /\ q[1] <= q[2]

\* C16: in every Ready state the four channels of the clear color lie in [0, 1],
\* whatever the stored size and wherever the pointer was reported.
C16_ClearColorInUnit ==
    Ready =>
        LET bg_color == unwrap(state).settings.bg_color
        IN InUnit(bg_color.r) /\ InUnit(bg_color.g) /\ InUnit(bg_color.b) /\ InUnit(bg_color.a)

\* a redraw has been requested and the handler that ran last was not its delivery
RedrawAwaited ==
    /\ Ready
    /\ redraw_pending
    /\ ~exiting
    /\ frame_seq < MaxFrames
    /\ last.event.kind # "RedrawRequested"

\* C17: every redraw handled in the Ready state requests exactly one further
\* redraw, whatever the outcome of the acquisition, so a redraw is awaited after
\* each of them; and, requested redraws being delivered, an awaited redraw leads
\* to a handler that attempts a frame acquisition, unless exit is signalled first.
C17_Requests ==
    LastRedraw(AcquireResults) =>
        /\ Count(last.ops, "request_redraw") = 1
        /\ Count(last.ops, "get_current_texture") = 1
        /\ redraw_pending

C17_FrameLoopNeverStalls ==
    /\ []C17_Requests
    /\ RedrawAwaited ~> (LastRedraw(AcquireResults) \/ exiting)

C17_Witness ==
    /\ RedrawAwaited
    /\ last.event.kind = "Focused"
    /\ frame_seq = 1
    /\ is_some(unwrap(state).surface.config)

\* the calls of a handler on the surface, the render pass and the queue, in order
FrameCalls ==
    {"get_current_texture", "configure", "begin_render_pass", "set_pipeline", "set_bind_group",
     "set_vertex_buffer", "draw", "end_render_pass", "submit", "present"}

FrameSteps(ops) == SelectSeq(ops, LAMBDA o : o.call \in FrameCalls)

\* C18: a redraw whose acquisition succeeds makes these calls once each, in this
\* order and no other in between: acquire; begin the render pass on the acquired
\* frame, clearing to the current clear color; bind the pipeline; bind the
\* material group at index 0; bind the vertex buffer at slot 0; draw vertices
\* 0..N, N the ingested vertex count, instances 0..1; end the pass; submit one
\* command buffer; present the acquired frame.
C18_FrameStepsInOrder ==
    LastRedraw({"Ok"}) =>
        LET s == unwrap(state)
            steps == FrameSteps(last.ops)
        IN /\ [i \in DOMAIN steps |-> steps[i].call] =
                 <<"get_current_texture", "begin_render_pass", "set_pipeline", "set_bind_group",
                   "set_vertex_buffer", "draw", "end_render_pass", "submit", "present">>
           /\ steps[2].with = <<frame_seq, s.settings.bg_color>>
           /\ steps[3].with = s.render_pipeline
           /\ steps[4].with = <<0, s.material_bind_group>>
           /\ steps[5].with = <<0, s.vertex_buffer>>
           /\ steps[6].with = <<0, Len(s.vertex_buffer), 0, 1>>
           /\ steps[8].with = 1
           /\ steps[9].with = frame_seq

C18_Witness ==
    /\ Ready
    /\ LastRedraw({"Ok"})
    /\ frame_seq = 2
    /\ unwrap(state).settings.bg_color.r = F64(1, 2)
    /\ Len(unwrap(state).vertex_buffer) = 3
    /\ Len(FrameSteps(last.ops)) = 9

\* the width and height of the stored surface configuration, as a size
ConfigSize(s) == PhysicalSize(s.config.width, s.config.height)

\* C19: in every Ready state the stored size is the width and height of the
\* stored surface configuration; a handler other than construction changes them
\* only as an accepted resize notification, and then both to the notified size;
\* input, update, render and the recovery from a failed acquisition change
\* neither; and none of them changes the pipeline, the vertex buffer, the
\* material bind group or the vertex count.
C19_SizeIsConfigSize ==
    Ready => unwrap(state).size = ConfigSize(unwrap(state))

C19_Step ==
    (Ready /\ Ready' /\ last'.event.kind # "Resumed") =>
        LET s == unwrap(state)
            t == unwrap(state')
            notified == PhysicalSize(last'.event.a, last'.event.b)
        IN /\ t.render_pipeline = s.render_pipeline
           /\ t.vertex_buffer = s.vertex_buffer
           /\ t.material_bind_group = s.material_bind_group
           /\ t.num_vertices = s.num_vertices
           /\ (t.size # s.size \/ ConfigSize(t) # ConfigSize(s)) =>
                 /\ last'.event.kind = "Resized"
                 /\ Positive(notified)
                 /\ t.size = notified
                 /\ ConfigSize(t) = notified
           /\ last'.event.kind # "Resized" =>
                 /\ t.size = s.size
                 /\ t.config = s.config

C19_SizeAndConfigTogether == []C19_SizeIsConfigSize /\ [][C19_Step]_vars

C19_Witness ==
    /\ Ready
    /\ LastRedraw({"Lost", "Outdated"})
    /\ unwrap(state).size = PhysicalSize(1, 2)
    /\ ConfigSize(unwrap(state)) = PhysicalSize(1, 2)
    /\ unwrap(state).settings.bg_color.g = F64(1, 1)
    /\ Count(last.ops, "configure") = 1

====
